---- MODULE Spec2Model ----
(***************************************************************************)
(* RSS normalizer (src/main.py): the time-bounded refresh cache            *)
(* (maybe_refresh_cache and the two feed endpoints, which FastAPI runs on  *)
(* worker threads because they are plain "def" handlers) and the pure      *)
(* helpers of the build pass (chunk_plain_text, guid_for, pick_enclosure,  *)
(* the item head of build_zen_xml / build_tg_xml).                         *)
(***************************************************************************)
EXTENDS Integers, Sequences, FiniteSets, TLC

VARIABLES
    clock,      \* time.time(), seconds
    cache,      \* _cache: [t, zen, tg]
    fetches,    \* number of upstream fetches started so far (http_get calls)
    pc,         \* per worker thread: position in the handler
    kind,       \* per thread: which entry point is running
    force,      \* per thread: the force argument of maybe_refresh_cache
    now,        \* per thread: the local "now" of maybe_refresh_cache
    fp,         \* per thread: the local "fp" (parsed feed) of maybe_refresh_cache
    outcome,    \* per thread: how the running maybe_refresh_cache ended
    resp,       \* the HTTP response sent last
    before,     \* per thread: cache and fetch count when the running call started
    last,       \* the most recently completed call: its now, force and outcome
    SITE_BASE,  \* configuration (environment), fixed at start-up
    FEED_LINK,  \* configuration (environment), fixed at start-up
    call,       \* pure-function harness: the function applied and its arguments
    ret         \* pure-function harness: the value returned

vars == <<clock, cache, fetches, pc, kind, force, now, fp, outcome, resp,
          before, last, SITE_BASE, FEED_LINK, call, ret>>

cacheVars == <<clock, cache, fetches, pc, kind, force, now, fp, outcome, resp,
               before, last>>

----------------------------------------------------------------------------
(* Bounds of the model *)

NThreads == 2       \* worker threads serving requests
MaxTicks == 2       \* the clock advances at most this many times
TickSeconds == 300  \* seconds per clock step
StartTime == 1200   \* time.time() when the process starts
MaxFetches == 2     \* upstream fetches per run
MaxEntries == 1     \* entries in a parsed feed

(* Program constants *)

CACHE_TTL == 600

Threads == 1 .. NThreads
EndTime == StartTime + MaxTicks * TickSeconds

----------------------------------------------------------------------------
(* Documents and parsed feeds *)

\* b"": the initial value of _cache["zen"] and _cache["tg"]
EmptyBytes == [profile |-> "none", fetch |-> 0, items |-> 0]

\* what feedparser.parse returned for fetch number id
Feed(id, bozo, n) == [id |-> id, bozo |-> bozo, n |-> n]
NoFeed == Feed(0, FALSE, 0)

\* the serialized rich document: one item per entry of fp, never empty
\* (etree.tostring always emits the XML declaration and the channel)
build_zen_xml(f) == [profile |-> "zen", fetch |-> f.id, items |-> f.n]

\* the serialized restricted document
build_tg_xml(f) == [profile |-> "tg", fetch |-> f.id, items |-> f.n]

\* truthiness of a bytes value
Truthy(b) == b # EmptyBytes

\* a variant that rejects every feed without entries
ParseFailed_anyEmpty(f) == f.n = 0

\* line 148: the condition under which fetch_source_feed raises 502
ParseFailed(f) == f.bozo /\ f.n = 0

\* a variant with the comparison turned around
WithinTtl_flipped(n, t) == n - t > CACHE_TTL

\* line 256, first conjunct after "not force"
WithinTtl(n, t) == n - t < CACHE_TTL

\* line 261: the timestamp stored by a refresh
StoredT(n) == n

\* the initial value of _cache (line 34)
EmptyCache == [t |-> 0, zen |-> EmptyBytes, tg |-> EmptyBytes]

\* no response sent yet
NoResponse == [status |-> 0, body |-> EmptyBytes]
NoSnapshot == [cache |-> EmptyCache, fetches |-> 0]

Init_cache ==
    /\ clock = StartTime
    /\ cache = EmptyCache
    /\ fetches = 0
    /\ pc = [th \in Threads |-> "idle"]
    /\ kind = [th \in Threads |-> "none"]
    /\ force = [th \in Threads |-> FALSE]
    /\ now = [th \in Threads |-> 0]
    /\ fp = [th \in Threads |-> NoFeed]
    /\ outcome = [th \in Threads |-> "none"]
    /\ resp = NoResponse
    /\ before = [th \in Threads |-> NoSnapshot]
    /\ last = [now |-> 0, force |-> FALSE, outcome |-> "none"]

\* the default of SITE_BASE and FEED_LINK (lines 20 and 22), as a sequence of
\* URL symbols, and an idle pure-function harness
DefaultUrl == <<"http://s", "/">>
NoCall == [fn |-> "none"]
NoRet == [fn |-> "none"]

Init ==
    /\ Init_cache
    /\ SITE_BASE = DefaultUrl
    /\ FEED_LINK = DefaultUrl
    /\ call = NoCall
    /\ ret = NoRet

----------------------------------------------------------------------------
(* The refresh cache: maybe_refresh_cache and the endpoints that call it *)

Errors == {"err_http", "err_502", "err_zen", "err_tg"}
InRefresh(th) == pc[th] \in {"fetch", "zen", "tg", "t"}
InCall(th) == pc[th] # "idle"

\* the entry points: GET /zen.xml and GET /telegram.xml call
\* maybe_refresh_cache(); "direct" is maybe_refresh_cache(force=True)
Requests == {<<"zen", FALSE>>, <<"tg", FALSE>>, <<"direct", TRUE>>}

\* time passes
Tick ==
    /\ clock + TickSeconds <= EndTime
    /\ clock' = clock + TickSeconds
    /\ UNCHANGED <<cache, fetches, pc, kind, force, now, fp, outcome, resp,
                   before, last, SITE_BASE, FEED_LINK, call, ret>>

\* a request arrives on an idle worker; line 255: now = time.time()
Begin(th, k, f) ==
    /\ pc[th] = "idle"
    /\ fetches + Cardinality({o \in Threads : InCall(o)}) < MaxFetches
    /\ kind' = [kind EXCEPT ![th] = k]
    /\ force' = [force EXCEPT ![th] = f]
    /\ now' = [now EXCEPT ![th] = clock]
    /\ fp' = [fp EXCEPT ![th] = NoFeed]
    /\ outcome' = [outcome EXCEPT ![th] = "running"]
    /\ before' = [before EXCEPT ![th] = [cache |-> cache, fetches |-> fetches]]
    /\ pc' = [pc EXCEPT ![th] = IF f THEN "fetch" ELSE "check_t"]
    /\ UNCHANGED <<clock, cache, fetches, resp, last, SITE_BASE, FEED_LINK,
                   call, ret>>

\* line 256: (now - _cache["t"] < CACHE_TTL)
CheckT(th) ==
    /\ pc[th] = "check_t"
    /\ pc' = [pc EXCEPT ![th] =
                IF WithinTtl(now[th], cache.t) THEN "check_zen" ELSE "fetch"]
    /\ UNCHANGED <<clock, cache, fetches, kind, force, now, fp, outcome, resp,
                   before, last, SITE_BASE, FEED_LINK, call, ret>>

\* line 256: and _cache["zen"]
CheckZen(th) ==
    /\ pc[th] = "check_zen"
    /\ pc' = [pc EXCEPT ![th] =
                IF Truthy(cache.zen) THEN "check_tg" ELSE "fetch"]
    /\ UNCHANGED <<clock, cache, fetches, kind, force, now, fp, outcome, resp,
                   before, last, SITE_BASE, FEED_LINK, call, ret>>

\* line 256-257: and _cache["tg"]: return
CheckTg(th) ==
    /\ pc[th] = "check_tg"
    /\ IF Truthy(cache.tg)
       THEN /\ pc' = [pc EXCEPT ![th] = "respond"]
            /\ outcome' = [outcome EXCEPT ![th] = "noop"]
       ELSE /\ pc' = [pc EXCEPT ![th] = "fetch"]
            /\ UNCHANGED outcome
    /\ UNCHANGED <<clock, cache, fetches, kind, force, now, fp, resp,
                   before, last, SITE_BASE, FEED_LINK, call, ret>>

\* line 258, fetch_source_feed: http_get raises (status, timeout, network)
FetchHttpError(th) ==
    /\ pc[th] = "fetch"
    /\ fetches' = fetches + 1
    /\ outcome' = [outcome EXCEPT ![th] = "err_http"]
    /\ pc' = [pc EXCEPT ![th] = "respond"]
    /\ UNCHANGED <<clock, cache, kind, force, now, fp, resp,
                   before, last, SITE_BASE, FEED_LINK, call, ret>>

\* line 258, fetch_source_feed: the bytes arrive and feedparser returns a
\* result with the bozo flag b and n entries; 502 when ParseFailed
FetchParse(th, b, n) ==
    /\ pc[th] = "fetch"
    /\ fetches' = fetches + 1
    /\ fp' = [fp EXCEPT ![th] = Feed(fetches + 1, b, n)]
    /\ IF ParseFailed(Feed(fetches + 1, b, n))
       THEN /\ outcome' = [outcome EXCEPT ![th] = "err_502"]
            /\ pc' = [pc EXCEPT ![th] = "respond"]
       ELSE /\ pc' = [pc EXCEPT ![th] = "zen"]
            /\ UNCHANGED outcome
    /\ UNCHANGED <<clock, cache, kind, force, now, resp,
                   before, last, SITE_BASE, FEED_LINK, call, ret>>

\* line 259: _cache["zen"] = build_zen_xml(fp)
StoreZen(th) ==
    /\ pc[th] = "zen"
    /\ cache' = [cache EXCEPT !.zen = build_zen_xml(fp[th])]
    /\ pc' = [pc EXCEPT ![th] = "tg"]
    /\ UNCHANGED <<clock, fetches, kind, force, now, fp, outcome, resp,
                   before, last, SITE_BASE, FEED_LINK, call, ret>>

\* line 259: build_zen_xml raises
ZenRaises(th) ==
    /\ pc[th] = "zen"
    /\ outcome' = [outcome EXCEPT ![th] = "err_zen"]
    /\ pc' = [pc EXCEPT ![th] = "respond"]
    /\ UNCHANGED <<clock, cache, fetches, kind, force, now, fp, resp,
                   before, last, SITE_BASE, FEED_LINK, call, ret>>

\* line 260: _cache["tg"] = build_tg_xml(fp)
StoreTg(th) ==
    /\ pc[th] = "tg"
    /\ cache' = [cache EXCEPT !.tg = build_tg_xml(fp[th])]
    /\ pc' = [pc EXCEPT ![th] = "t"]
    /\ UNCHANGED <<clock, fetches, kind, force, now, fp, outcome, resp,
                   before, last, SITE_BASE, FEED_LINK, call, ret>>

\* line 260: build_tg_xml raises
TgRaises(th) ==
    /\ pc[th] = "tg"
    /\ outcome' = [outcome EXCEPT ![th] = "err_tg"]
    /\ pc' = [pc EXCEPT ![th] = "respond"]
    /\ UNCHANGED <<clock, cache, fetches, kind, force, now, fp, resp,
                   before, last, SITE_BASE, FEED_LINK, call, ret>>

\* line 261: _cache["t"] = now
StoreT(th) ==
    /\ pc[th] = "t"
    /\ cache' = [cache EXCEPT !.t = StoredT(now[th])]
    /\ outcome' = [outcome EXCEPT ![th] = "stored"]
    /\ pc' = [pc EXCEPT ![th] = "respond"]
    /\ UNCHANGED <<clock, fetches, kind, force, now, fp, resp,
                   before, last, SITE_BASE, FEED_LINK, call, ret>>

\* lines 269-273 and 277-281: the endpoint answers with the cached bytes of
\* its profile, or with 500 when maybe_refresh_cache raised
Respond(th) ==
    /\ pc[th] = "respond"
    /\ resp' = IF kind[th] = "direct" THEN resp
               ELSE IF outcome[th] \in Errors
                    THEN [status |-> 500, body |-> EmptyBytes]
                    ELSE [status |-> 200,
                          body |-> IF kind[th] = "zen" THEN cache.zen
                                   ELSE cache.tg]
    /\ last' = [now |-> now[th], force |-> force[th], outcome |-> outcome[th]]
    /\ pc' = [pc EXCEPT ![th] = "idle"]
    \* the locals of the finished call are gone
    /\ kind' = [kind EXCEPT ![th] = "none"]
    /\ force' = [force EXCEPT ![th] = FALSE]
    /\ now' = [now EXCEPT ![th] = 0]
    /\ fp' = [fp EXCEPT ![th] = NoFeed]
    /\ outcome' = [outcome EXCEPT ![th] = "none"]
    /\ before' = [before EXCEPT ![th] = NoSnapshot]
    /\ UNCHANGED <<clock, cache, fetches, SITE_BASE, FEED_LINK, call, ret>>

Step(th) ==
    \/ \E r \in Requests : Begin(th, r[1], r[2])
    \/ CheckT(th)
    \/ CheckZen(th)
    \/ CheckTg(th)
    \/ FetchHttpError(th)
    \/ \E b \in BOOLEAN, n \in 0 .. MaxEntries : FetchParse(th, b, n)
    \/ StoreZen(th)
    \/ ZenRaises(th)
    \/ StoreTg(th)
    \/ TgRaises(th)
    \/ StoreT(th)
    \/ Respond(th)

\* worker threads run the handlers concurrently
Next == Tick \/ \E th \in Threads : Step(th)

Spec == Init /\ [][Next]_vars

\* requests served one at a time: a call starts only when no other is running
Serial(th) == pc[th] # "idle" \/ \A o \in Threads : pc[o] = "idle"

SeqNext == Tick \/ \E th \in Threads : (Serial(th) /\ Step(th))

SeqSpec == Init /\ [][SeqNext]_vars

----------------------------------------------------------------------------
(* chunk_plain_text: strings are sequences of characters *)

MaxLen == 5      \* longest plain text tried
MaxLimit == 4    \* largest TELEGRAM_MAX tried

Chars == {"a", "b", " ", "\n"}
Ellipsis == "..."       \* the single character U+2026
IsSpace(c) == c \in {" ", "\n"}

Min(S) == CHOOSE x \in S : \A y \in S : x <= y
Max(S) == CHOOSE x \in S : \A y \in S : x >= y

\* all strings over Chars of length at most n
StringsUpTo(n) == UNION {[1 .. k -> Chars] : k \in 0 .. n}

\* s[:k] of Python, k of either sign
SliceTo(s, k) ==
    IF k >= 0 THEN SubSeq(s, 1, Min({k, Len(s)}))
    ELSE SubSeq(s, 1, Max({Len(s) + k, 0}))

\* the pattern \s+\S*$ matches in s starting at position i: a run of
\* whitespace, then a run of non-whitespace that reaches the end of s or the
\* newline that ends s
TailMatchesAt(s, i) ==
    /\ IsSpace(s[i])
    /\ \E j \in i + 1 .. Len(s) + 1 : \E k \in j .. Len(s) + 1 :
          /\ \A x \in i .. j - 1 : IsSpace(s[x])
          /\ \A x \in j .. k - 1 : ~IsSpace(s[x])
          /\ \/ k = Len(s) + 1
             \/ k = Len(s) /\ s[Len(s)] = "\n"

\* re.sub(r"\s+\S*$", "", s): the leftmost match and all after it go
SubTail(s) ==
    LET starts == {i \in 1 .. Len(s) : TailMatchesAt(s, i)}
    IN  IF starts = {} THEN s ELSE SubSeq(s, 1, Min(starts) - 1)

\* str.strip()
Strip(s) ==
    LET keep == {i \in 1 .. Len(s) : ~IsSpace(s[i])}
    IN  IF keep = {} THEN <<>> ELSE SubSeq(s, Min(keep), Max(keep))

\* lines 217-224
chunk_plain_text(s, maxlen) ==
    IF Len(s) <= maxlen THEN s
    ELSE Strip(SubTail(SliceTo(s, maxlen - 1))) \o <<Ellipsis>>

InitChunk ==
    /\ Init_cache
    /\ SITE_BASE = DefaultUrl
    /\ FEED_LINK = DefaultUrl
    /\ call \in {[fn |-> "chunk_plain_text", s |-> s, maxlen |-> m] :
                    s \in StringsUpTo(MaxLen), m \in 1 .. MaxLimit}
    /\ ret = NoRet

\* line 249: desc_text = chunk_plain_text(plain, TELEGRAM_MAX)
ApplyChunk ==
    /\ call.fn = "chunk_plain_text"
    /\ ret = NoRet
    /\ ret' = [fn |-> "chunk_plain_text",
               value |-> chunk_plain_text(call.s, call.maxlen)]
    /\ UNCHANGED <<cacheVars, SITE_BASE, FEED_LINK, call>>

ChunkSpec == InitChunk /\ [][ApplyChunk]_vars

\* p is text of s that stops where a word of s stops: p is empty, or p is
\* s[i..j] with only whitespace before i, and whitespace at j + 1
EndsAtWordBoundary(p, s) ==
    \/ p = <<>>
    \/ \E i \in 1 .. Len(s) : \E j \in i .. Len(s) - 1 :
          /\ p = SubSeq(s, i, j)
          /\ \A x \in 1 .. i - 1 : IsSpace(s[x])
          /\ ~IsSpace(s[j])
          /\ IsSpace(s[j + 1])

\* C6: the result is at most maxlen long; when s is longer than maxlen the
\* result ends with one ellipsis and the text before it stops at a
\* whitespace boundary of s, whether or not the cut prefix holds whitespace
C6_TruncatesAtWordBoundary ==
    ret.fn = "chunk_plain_text" =>
        LET s == call.s
            out == ret.value
            text == SubSeq(out, 1, Len(out) - 1)
        IN  /\ Len(out) <= call.maxlen
            /\ Len(s) > call.maxlen =>
                  /\ Len(out) >= 1
                  /\ out[Len(out)] = Ellipsis
                  /\ \A x \in 1 .. Len(text) : text[x] # Ellipsis
                  /\ EndsAtWordBoundary(text, s)

\* what chunk_plain_text does guarantee: the length bound and the ellipsis;
\* the text before the ellipsis stops at a whitespace boundary when the cut
\* prefix holds whitespace, and is the whole cut prefix otherwise
ChunkLengthAndEllipsis ==
    ret.fn = "chunk_plain_text" =>
        LET s == call.s
            out == ret.value
            text == SubSeq(out, 1, Len(out) - 1)
            cut == SubSeq(s, 1, call.maxlen - 1)
        IN  /\ Len(out) <= call.maxlen
            /\ Len(s) > call.maxlen =>
                  /\ out[Len(out)] = Ellipsis
                  /\ \/ EndsAtWordBoundary(text, s)
                     \/ /\ \A x \in 1 .. Len(cut) : ~IsSpace(cut[x])
                        /\ text = cut

----------------------------------------------------------------------------
(* Strings of the build pass: sequences of symbols, each symbol standing for
   the characters written in its name; the empty sequence is the empty
   string, and also stands for an absent field (both are falsy) *)

Origins == {"http://s", "http://f", "http://c", "http://["}

\* str.encode("utf-8", "ignore") of one symbol: the lone surrogate cannot be
\* encoded and is dropped
Utf8(c) ==
    CASE c = "a" -> <<97>>
      [] c = "b" -> <<98>>
      [] c = "e_acute" -> <<195, 169>>
      [] c = "lone_surrogate" -> <<>>
      [] c = "/" -> <<47>>
      [] c = "post" -> <<112, 111, 115, 116>>
      [] c = "a.png" -> <<97, 46, 112, 110, 103>>
      [] c = "b.mp3" -> <<98, 46, 109, 112, 51>>
      [] c = "c" -> <<99>>
      [] c = "untitled" -> <<63>>
      [] c = "http://[" -> <<104, 116, 116, 112, 58, 47, 47, 91>>
      [] c = "http://s" -> <<104, 116, 116, 112, 58, 47, 47, 115>>
      [] c = "http://f" -> <<104, 116, 116, 112, 58, 47, 47, 102>>
      [] c = "http://c" -> <<104, 116, 116, 112, 58, 47, 47, 99>>

RECURSIVE Encode(_)
Encode(str) ==
    IF str = <<>> THEN <<>> ELSE Utf8(Head(str)) \o Encode(Tail(str))

\* the digest is a fixed-width value computed from the bytes alone; SHA-256
\* itself is replaced by a polynomial hash of DigestModulus values
DigestModulus == 65536

RECURSIVE HashFrom(_, _)
HashFrom(h, bytes) ==
    IF bytes = <<>> THEN h
    ELSE HashFrom((h * 31 + Head(bytes)) % DigestModulus, Tail(bytes))

sha256_hexdigest(bytes) == HashFrom(7, bytes)

\* Python's "x or y" on strings
Or(x, y) == IF x # <<>> THEN x ELSE y

\* a variant that looks at the link before the guid field
guid_for_linkFirst(e) ==
    sha256_hexdigest(Encode(
        Or(e.id, Or(e.link, Or(e.guid, e.title \o e.published)))))

\* lines 141-143
guid_for(e) ==
    sha256_hexdigest(Encode(
        Or(e.id, Or(e.guid, Or(e.link, e.title \o e.published)))))

UrlSite == <<"http://s", "/">>
UrlFeed == <<"http://f", "/">>
UrlPost == <<"http://s", "/", "post">>

\* what feedparser can leave in published_parsed / updated_parsed: nothing,
\* a time tuple, or a tuple datetime() rejects
NoTime == [kind |-> "none", sec |-> 0]
BadTime == [kind |-> "invalid", sec |-> 0]
GoodTime(t) == [kind |-> "valid", sec |-> t]

IdValues == {<<>>, <<"a">>, <<"lone_surrogate">>}
GuidValues == {<<>>, <<"a">>, <<"b">>}
LinkValues == {<<>>, UrlPost}
TitleValues == {<<>>, <<"a">>, <<"a", "b">>, <<"e_acute">>}
PublishedValues == {<<>>, <<"b">>}
AuthorValues == {<<>>, <<"a">>}
ParsedValues == {NoTime, BadTime, GoodTime(600)}

Entries ==
    [id : IdValues, guid : GuidValues, link : LinkValues, title : TitleValues,
     published : PublishedValues, author : AuthorValues,
     published_parsed : ParsedValues, updated_parsed : ParsedValues]

\* entries as far as guid_for reads them (no parsed dates)
PlainEntries ==
    {e \in Entries : e.published_parsed = NoTime /\ e.updated_parsed = NoTime}

FieldValues(f) ==
    CASE f = "id" -> IdValues
      [] f = "guid" -> GuidValues
      [] f = "link" -> LinkValues
      [] f = "title" -> TitleValues
      [] f = "published" -> PublishedValues
      [] f = "author" -> AuthorValues

TextFields == {"id", "guid", "link", "title", "published", "author"}

InitGuid ==
    /\ Init_cache
    /\ SITE_BASE = UrlSite
    /\ FEED_LINK = UrlSite
    /\ call \in {[fn |-> "guid_for", e |-> e, prev |-> e] : e \in PlainEntries}
    /\ ret = NoRet

\* lines 176 and 240: the first build of the entry derives its guid
GuidFirst ==
    /\ call.fn = "guid_for"
    /\ ret = NoRet
    /\ ret' = [fn |-> "guid_for", value |-> guid_for(call.e),
               prev |-> guid_for(call.e)]
    /\ UNCHANGED <<cacheVars, SITE_BASE, FEED_LINK, call>>

\* the next refresh sees the entry with field f changed to v upstream (or
\* unchanged, when v is its old value) and derives the guid again
GuidRefresh(f, v) ==
    /\ call.fn = "guid_for"
    /\ ret # NoRet
    /\ call' = [call EXCEPT !.e = [call.e EXCEPT ![f] = v], !.prev = call.e]
    /\ ret' = [fn |-> "guid_for",
               value |-> guid_for([call.e EXCEPT ![f] = v]),
               prev |-> ret.value]
    /\ UNCHANGED <<cacheVars, SITE_BASE, FEED_LINK>>

GuidNext ==
    \/ GuidFirst
    \/ \E f \in TextFields : \E v \in FieldValues(f) : GuidRefresh(f, v)

GuidSpec == InitGuid /\ [][GuidNext]_vars

\* the value the identifier is derived from: the first non-empty of id,
\* guid, link, title followed by published
SelectedIdentity(e) ==
    IF e.id # <<>> THEN e.id
    ELSE IF e.guid # <<>> THEN e.guid
    ELSE IF e.link # <<>> THEN e.link
    ELSE e.title \o e.published

\* C7: two versions of an entry that agree on the first non-empty of id,
\* guid, link, title+published get the same guid, whatever their other
\* fields are; an unchanged entry gets the same guid on every refresh
C7_GuidDependsOnSelectedValueOnly ==
    (ret.fn = "guid_for"
     /\ SelectedIdentity(call.e) = SelectedIdentity(call.prev))
        => ret.value = ret.prev

\* a refresh changed the link of an entry identified by its guid field, and
\* the guid derived from it stayed the same
C7_Witness ==
    /\ ret.fn = "guid_for"
    /\ call.e.id = <<>> /\ call.e.guid # <<>>
    /\ call.e.link # call.prev.link
    /\ call.e.guid = call.prev.guid
    /\ ret.value = ret.prev

----------------------------------------------------------------------------
(* The head of an output item: title, link, guid, pubDate *)

\* "Без названия", the placeholder title (lines 172 and 236)
Untitled == <<"untitled">>

\* lines 131-139: the first of published_parsed, updated_parsed that
\* datetime() accepts, else the current time
safe_pubdate(e, t) ==
    IF e.published_parsed.kind = "valid" THEN e.published_parsed.sec
    ELSE IF e.updated_parsed.kind = "valid" THEN e.updated_parsed.sec
    ELSE t

\* lines 128-129: the UTC time, formatted per RFC 822
dt_to_rfc822(sec) == [format |-> "rfc822", utc |-> sec]

\* lines 171-177: the head of the item of the rich document, built at time t
zen_item(e, t) ==
    [title |-> Or(e.title, Untitled),
     link |-> Or(e.link, FEED_LINK),
     guid |-> guid_for(e),
     pubDate |-> dt_to_rfc822(safe_pubdate(e, t))]

\* a variant that falls back to the base of relative links
tg_item_siteBase(e, t) ==
    [title |-> Or(e.title, Untitled),
     link |-> Or(e.link, SITE_BASE),
     guid |-> guid_for(e),
     pubDate |-> dt_to_rfc822(safe_pubdate(e, t))]

\* lines 235-241: the head of the item of the restricted document
tg_item(e, t) ==
    [title |-> Or(e.title, Untitled),
     link |-> Or(e.link, FEED_LINK),
     guid |-> guid_for(e),
     pubDate |-> dt_to_rfc822(safe_pubdate(e, t))]

NoItem == [title |-> <<>>, link |-> <<>>, guid |-> 0 - 1,
           pubDate |-> [format |-> "none", utc |-> 0]]

ConfigUrls == {UrlSite, UrlFeed}

\* entries as the item head reads them (no author)
HeadEntries == {e \in Entries : e.author = <<>> /\ e.guid = <<>>}

InitBuild ==
    /\ Init_cache
    /\ SITE_BASE \in ConfigUrls
    /\ FEED_LINK \in ConfigUrls
    /\ call \in {[fn |-> "build", e |-> e] : e \in HeadEntries}
    /\ ret = [fn |-> "build", zen |-> NoItem, zenAt |-> 0,
                              tg |-> NoItem, tgAt |-> 0]

\* line 259 -> lines 171-177: build_zen_xml emits the item of the entry
BuildZenItem ==
    /\ call.fn = "build"
    /\ ret.zen = NoItem
    /\ ret' = [ret EXCEPT !.zen = zen_item(call.e, clock), !.zenAt = clock]
    /\ UNCHANGED <<cacheVars, SITE_BASE, FEED_LINK, call>>

\* line 260 -> lines 235-241: build_tg_xml emits the item of the entry
BuildTgItem ==
    /\ call.fn = "build"
    /\ ret.zen # NoItem
    /\ ret.tg = NoItem
    /\ ret' = [ret EXCEPT !.tg = tg_item(call.e, clock), !.tgAt = clock]
    /\ UNCHANGED <<cacheVars, SITE_BASE, FEED_LINK, call>>

BuildNext == Tick \/ BuildZenItem \/ BuildTgItem

BuildSpec == InitBuild /\ [][BuildNext]_vars

\* the entry has no link and no usable published / updated timestamp
Bare(e) ==
    /\ e.link = <<>>
    /\ e.published_parsed.kind # "valid"
    /\ e.updated_parsed.kind # "valid"

Complete(item) ==
    /\ item.title # <<>>
    /\ item.link # <<>>
    /\ item.guid \in 0 .. DigestModulus - 1
    /\ item.pubDate.format = "rfc822"

----------------------------------------------------------------------------
(* pick_enclosure *)

MaxEnclosures == 2   \* longest enclosure list tried

Last(u) == u[Len(u)]

\* the part of base a relative reference is resolved in: base up to its last
\* "/", or the origin and "/" when base has no path
Directory(base) ==
    LET slashes == {i \in 1 .. Len(base) : base[i] = "/"}
    IN  IF slashes = {} THEN base \o <<"/">>
        ELSE SubSeq(base, 1, Max(slashes))

\* urllib.parse.urljoin(base, src)
urljoin(base, src) ==
    IF src = <<>> THEN base
    ELSE IF base = <<>> THEN src
    ELSE IF src[1] \in Origins THEN src
    ELSE IF src[1] = "/"
         THEN (IF base[1] \in Origins THEN <<base[1]>> ELSE <<>>) \o src
    ELSE Directory(base) \o src

\* urljoin raises ValueError on a URL with an unclosed "[" in its host
UrljoinRaises(base, src) ==
    \/ base # <<>> /\ base[1] = "http://["
    \/ src # <<>> /\ src[1] = "http://["

\* lines 61-65
absolutize_url(src, base) ==
    IF UrljoinRaises(base, src) THEN src ELSE urljoin(base, src)

\* mimetypes.guess_type(url)[0], "" for None
guess_type(url) ==
    IF url = <<>> THEN ""
    ELSE CASE Last(url) = "a.png" -> "image/png"
           [] Last(url) = "b.mp3" -> "audio/mpeg"
           [] OTHER -> ""

\* Python's "x or y" on MIME type names
OrType(x, y) == IF x # "" THEN x ELSE y

NoMedia == [url |-> <<>>, type |-> ""]

\* a variant that prefers the image of the content
pick_enclosure_imageFirst(entry, html_first_img) ==
    LET href == IF entry.enclosures # <<>>
                THEN Or(entry.enclosures[1].href, entry.enclosures[1].url)
                ELSE <<>>
    IN  IF html_first_img # <<>>
        THEN [url |-> html_first_img,
              type |-> OrType(guess_type(html_first_img), "image/jpeg")]
        ELSE IF href # <<>>
        THEN LET abs == absolutize_url(href, Or(entry.link, SITE_BASE))
             IN  [url |-> abs,
                  type |-> OrType(entry.enclosures[1].type,
                                  OrType(guess_type(abs), "image/jpeg"))]
        ELSE NoMedia

\* lines 113-126; NoMedia is the None of line 126
pick_enclosure(entry, html_first_img) ==
    LET href == IF entry.enclosures # <<>>
                THEN Or(entry.enclosures[1].href, entry.enclosures[1].url)
                ELSE <<>>
    IN  IF href # <<>>
        THEN LET abs == absolutize_url(href, Or(entry.link, SITE_BASE))
             IN  [url |-> abs,
                  type |-> OrType(entry.enclosures[1].type,
                                  OrType(guess_type(abs), "image/jpeg"))]
        ELSE IF html_first_img # <<>>
        THEN [url |-> html_first_img,
              type |-> OrType(guess_type(html_first_img), "image/jpeg")]
        ELSE NoMedia

HrefValues == {<<>>, <<"/", "b.mp3">>, <<"c">>, <<"http://c", "/", "a.png">>,
               <<"http://[", "/", "c">>}
EnclosureValues == [href : HrefValues, url : {<<>>, <<"/", "c">>},
                    type : {"", "audio/mpeg"}]
EnclosureLists == UNION {[1 .. k -> EnclosureValues] : k \in 0 .. MaxEnclosures}
ImageValues == {<<>>, <<"http://s", "/", "a.png">>, <<"http://s", "/", "c">>}

InitEnclosure ==
    /\ Init_cache
    /\ SITE_BASE \in ConfigUrls
    /\ FEED_LINK = UrlSite
    /\ call \in {[fn |-> "pick_enclosure",
                   entry |-> [link |-> l, enclosures |-> encs],
                   html_first_img |-> img] :
                    l \in LinkValues, encs \in EnclosureLists,
                    img \in ImageValues}
    /\ ret = NoRet

\* line 191: enc = pick_enclosure(e, first_img)
ApplyPickEnclosure ==
    /\ call.fn = "pick_enclosure"
    /\ ret = NoRet
    /\ ret' = [fn |-> "pick_enclosure",
               value |-> pick_enclosure(call.entry, call.html_first_img)]
    /\ UNCHANGED <<cacheVars, SITE_BASE, FEED_LINK, call>>

EnclosureSpec == InitEnclosure /\ [][ApplyPickEnclosure]_vars

\* what selecting the enclosure enc of an entry means: its URL (href, else
\* url) made absolute against the entry link, else the site base, and its
\* declared type, else the type guessed from the URL, else image/jpeg
FromEnclosure(enc, link) ==
    LET target == IF enc.href # <<>> THEN enc.href ELSE enc.url
        base == IF link # <<>> THEN link ELSE SITE_BASE
        abs == absolutize_url(target, base)
    IN  [url |-> abs,
         type |-> IF enc.type # "" THEN enc.type
                  ELSE IF guess_type(abs) # "" THEN guess_type(abs)
                  ELSE "image/jpeg"]

FromImage(img) ==
    [url |-> img,
     type |-> IF guess_type(img) # "" THEN guess_type(img) ELSE "image/jpeg"]

----------------------------------------------------------------------------
(* Properties of the refresh cache *)

AllIdle == \A th \in Threads : pc[th] = "idle"

\* C1: whenever no call is running, the stored rich document and the stored
\* restricted document were built from the same fetch
C1_DocumentsFromSameFetch ==
    (AllIdle /\ Truthy(cache.zen) /\ Truthy(cache.tg))
        => cache.zen.fetch = cache.tg.fetch

\* C2: a call of maybe_refresh_cache that raised (fetch error, unparseable
\* feed, or an exception in either build) left the three cache fields as
\* they were when it started
C2_FailedRefreshLeavesCache ==
    \A th \in Threads :
        (pc[th] = "respond" /\ outcome[th] \in Errors)
            => cache = before[th].cache

\* C3 as stated: every parse result with zero entries, malformed or not,
\* makes the call fail with the 502 error and leaves the cache unchanged
C3_EveryEmptyParseFails ==
    \A th \in Threads :
        (fp[th].id # 0 /\ fp[th].n = 0)
            => (outcome[th] = "err_502" /\ cache = before[th].cache)

\* C3 amended: the call fails with the 502 error exactly when the parse
\* result has zero entries and the parser flagged the feed as malformed;
\* it then built nothing and the cache is as it was before the call
C3_MalformedEmptyParseFails ==
    \A th \in Threads :
        fp[th].id # 0
            => /\ (outcome[th] = "err_502") <=> (fp[th].bozo /\ fp[th].n = 0)
               /\ outcome[th] = "err_502"
                    => /\ pc[th] = "respond"
                       /\ cache = before[th].cache
                       /\ fetches = before[th].fetches + 1

\* a call over a populated cache has just failed with 502
C3_Witness ==
    \E th \in Threads :
        /\ pc[th] = "respond"
        /\ outcome[th] = "err_502"
        /\ fp[th].bozo /\ fp[th].n = 0
        /\ Truthy(before[th].cache.zen) /\ Truthy(before[th].cache.tg)

\* C4: when the previous unforced call fetched and stored, an unforced call
\* started less than CACHE_TTL seconds after it fetches nothing, stores
\* nothing and returns at the freshness check
C4_SecondCallWithinTtlIsNoop ==
    \A th \in Threads :
        (/\ InCall(th) /\ ~force[th]
         /\ last.outcome = "stored" /\ ~last.force
         /\ now[th] - last.now < CACHE_TTL)
            => /\ pc[th] \in {"check_t", "check_zen", "check_tg", "respond"}
               /\ pc[th] = "respond" => outcome[th] = "noop"
               /\ fetches = before[th].fetches
               /\ cache = before[th].cache

\* the second call, started later inside the window, has returned as a no-op
\* after exactly one fetch
C4_Witness ==
    \E th \in Threads :
        /\ pc[th] = "respond" /\ outcome[th] = "noop" /\ ~force[th]
        /\ last.outcome = "stored" /\ ~last.force
        /\ now[th] > last.now /\ now[th] - last.now < CACHE_TTL
        /\ fetches = 1

\* C5: at most one caller is inside the fetch-parse-build-store sequence
C5_AtMostOneRefreshInFlight ==
    Cardinality({th \in Threads : InRefresh(th)}) <= 1

\* C10: the timestamp stored in the cache never decreases
C10_TimestampNeverDecreases == [][cache'.t >= cache.t]_vars

====
